---- MODULE Spec2Model ----
(***************************************************************************)
(* State-machine model of the MeetingService HTTP client                   *)
(* (src/src/services/meetingService.ts): checkAuthStatus, logout and the   *)
(* two-phase fetchAndAnalyzeMeeting orchestration.  Every `await` of the   *)
(* source is a point where the environment chooses how the pending         *)
(* promise settles; the synchronous code between two awaits is one action. *)
(***************************************************************************)
EXTENDS Integers, Sequences, FiniteSets, TLC

(***************************************************************************)
(* JavaScript / JSON values.  Each kind keeps its payload under its own    *)
(* field name, so values of different kinds are plain unequal records.     *)
(***************************************************************************)
Undefined == [kind |-> "undefined"]
Null == [kind |-> "null"]
Bool(b) == [kind |-> "boolean", b |-> b]
Str(s) == [kind |-> "string", s |-> s]
Arr(items) == [kind |-> "array", items |-> items]
Obj(fields) == [kind |-> "object", fields |-> fields]
Num(n) == [kind |-> "number", n |-> n]

\* v == null || v === undefined
Nullish(v) == v.kind \in {"undefined", "null"}

\* JavaScript truthiness, as used by `!x` and `x || y`.
Truthy(v) ==
    CASE v.kind = "undefined" -> FALSE
      [] v.kind = "null" -> FALSE
      [] v.kind = "boolean" -> v.b
      [] v.kind = "string" -> v.s # ""
      [] OTHER -> TRUE

\* Property read v.f (and v?.f) on a value; on null / undefined the callers
\* decide whether the read throws (v.f) or yields undefined (v?.f).
Get(v, f) ==
    IF v.kind = "object" /\ f \in DOMAIN v.fields THEN v.fields[f] ELSE Undefined

\* a || b
OrElse(a, b) == IF Truthy(a) THEN a ELSE b

\* An Error object; isError is the outcome of `x instanceof Error`.
Err(name, message) == [isError |-> TRUE, name |-> name, message |-> message]

(***************************************************************************)
(* Program constants.                                                      *)
(***************************************************************************)
API_BASE_URL == "https://mom-bot-transcript-service.onrender.com"

baseUrls ==
    << "http://localhost:8000/api/v1/analyze",
       "http://127.0.0.1:8000/api/v1/analyze",
       "http://0.0.0.0:8000/api/v1/analyze" >>

\* `${testMode}` of a boolean inside a template string
BoolText(b) == IF b THEN "true" ELSE "false"

\* Variant of getTestModeFromUrl: an absent parameter counts as false.
getTestModeFromUrl_DefaultFalse(param) == param = Str("true")

\* getTestModeFromUrl: param is URLSearchParams.get('test_mode'), Null when
\* the parameter is absent.
getTestModeFromUrl(param) == param = Null \/ param = Str("true")

getAnalyzeApiUrls(param) ==
    [k \in 1..Len(baseUrls) |->
        baseUrls[k] \o "?test_mode=" \o BoolText(getTestModeFromUrl(param))
                    \o "&llm_timeout=60&user_lookup_timeout=30"]

(***************************************************************************)
(* Inputs: what the network can answer.                                    *)
(***************************************************************************)
\* fetch() rejects with a TypeError on a network failure (DNS, connection
\* refused, timeout); the message text depends on the browser.
TransportErrors ==
    { Err("TypeError", "Failed to fetch"),
      Err("TypeError", "Load failed"),
      Err("TypeError", "") }

\* response.json() rejects with a SyntaxError on a body that is not JSON.
ParseErrors == { Err("SyntaxError", "Unexpected token < in JSON at position 0") }

Statuses == {200, 404, 500}

\* response.ok
Ok(status) == status >= 200 /\ status <= 299

Entry1 == Obj([startTime |-> Str("00:01"), endTime |-> Str("00:05"),
               text |-> Str("Hello"), speaker |-> Str("Ann")])
Entry2 == Obj([text |-> Str("Bye")])
MeetingInfo == Obj([id |-> Str("m1"), subject |-> Str("Kickoff")])

\* Values the `data` field of a /transcript/fetch body can hold: well-formed
\* transcripts, and JSON that does not follow the TranscriptData interface.
Transcripts ==
    { Obj([meetingInfo |-> MeetingInfo,
           transcripts |-> Arr(<< Obj([id |-> Str("s1"),
                                       entries |-> Arr(<<Entry1, Entry2>>)]) >>)]),
      Obj([meetingInfo |-> MeetingInfo, transcripts |-> Arr(<< >>)]),
      Obj([meetingInfo |-> MeetingInfo]),
      Obj([meetingInfo |-> MeetingInfo, transcripts |-> Str("n/a")]),
      Obj([meetingInfo |-> MeetingInfo,
           transcripts |-> Arr(<< Obj([id |-> Str("s1")]),
                                  Obj([id |-> Str("s2"),
                                       entries |-> Str("n/a")]) >>)]) }

\* An object with the fields among success / message / data that are given
\* (Undefined stands for an absent field).
FetchBody(s, m, d) ==
    LET keys == { k \in {"success", "message", "data"} :
                    \/ k = "success" /\ s # Undefined
                    \/ k = "message" /\ m # Undefined
                    \/ k = "data" /\ d # Undefined }
    IN Obj([k \in keys |-> CASE k = "success" -> s
                             [] k = "message" -> m
                             [] OTHER -> d])

FetchBodies ==
    {Null, Str("Service Unavailable")} \cup
    { FetchBody(s, m, d) :
        s \in {Bool(TRUE), Bool(FALSE), Undefined},
        m \in {Undefined, Str(""), Str("Meeting not found")},
        d \in Transcripts \cup {Undefined} }

\* JSON bodies an analyze endpoint can answer; served_by tells the bodies of
\* different candidates apart.
AnalyzeBodies(k) ==
    { Null,
      Str("Internal Server Error"),
      Obj([served_by |-> Str(baseUrls[k]),
           data |-> Obj([mode |-> Str("test"), html |-> Str("<p>MoM</p>")])]),
      Obj([served_by |-> Str(baseUrls[k]), message |-> Str("LLM timeout")]),
      Obj([served_by |-> Str(baseUrls[k]), message |-> Str("")]) }

MeetingUrls ==
    { "https://teams.microsoft.com/meet/34349166966557?p=LxX7J4WLhDKz2oYJcA",
      "https://teams.microsoft.com/meet/32829331378792?p=1OLQSl9P0J3jj8cXYd" }

\* Values of the page's test_mode query parameter (Null: not present).
TestModeParams == {Null, Str("true"), Str("false"), Str("1")}

(***************************************************************************)
(* State.                                                                  *)
(***************************************************************************)
VARIABLES
    testModeParam,    \* test_mode parameter of window.location.search
    requests,         \* every fetch() issued so far, in order
    pc,               \* fetchAndAnalyzeMeeting: the await the call is parked at
    meetingUrl,       \* its argument
    data,             \* const data = await response.json()
    analyzeUrls,      \* const analyzeUrls = getAnalyzeApiUrls()
    i,                \* index of the candidate of the current loop iteration
    analyzeResponse,  \* let analyzeResponse
    analyzeData,      \* let analyzeData
    lastError,        \* let lastError
    fetchCause,       \* what the /transcript/fetch request ended with
    answered,         \* per candidate: what its request ended with
    outcome,          \* state of the promise returned by the call
    result,           \* the value the promise settled with
    settleCount,      \* how many times the promise was settled
    authPc,           \* checkAuthStatus: position
    authOutcome,      \* state of the promise returned by checkAuthStatus
    authResult,       \* the value it settled with
    authCause,        \* what the /auth/status request ended with
    logoutPc,         \* logout: position
    logoutOutcome,    \* state of the promise returned by logout
    logoutResult,     \* the error it rejected with
    logoutCause,      \* what the /auth/logout request ended with
    parked,           \* two calls: the locals of the call that is not running
    active,           \* two calls: the call whose locals the variables hold
    overlapped,       \* two calls: both were in flight at the same time
    probePc,          \* testAnalyzeApiConnectivity: position
    probeI,           \* index of the candidate being probed
    probeAnswered,    \* per candidate: what its probe ended with
    probeResult,      \* the value the returned promise was fulfilled with
    exportData,       \* downloadTranscript: the transcriptData state of the App
    exportPc,         \* downloadTranscript: position
    exportFile,       \* the file handed to the browser for download
    fetching,         \* App state: a meeting is being processed
    fetchingMeetingId, \* App state: the id of that meeting
    transcriptData,   \* App state
    appAnalyzeResponse, \* App state `analyzeResponse`
    error,            \* App state
    handlerPc,        \* handleFetchMeetingSummary: position
    authParam,        \* `auth` parameter of the page URL at load
    messageParam,     \* `message` parameter of the page URL at load
    authStatus,       \* App state
    loading,          \* App state
    loadPc,           \* the mount effect and App.checkAuthStatus: position
    logoutHandlerPc   \* handleLogout: position

orchVars == << testModeParam, pc, meetingUrl, data, analyzeUrls, i,
               analyzeResponse, analyzeData, lastError, fetchCause, answered,
               outcome, result, settleCount >>
authVars == << authPc, authOutcome, authResult, authCause >>
logoutVars == << logoutPc, logoutOutcome, logoutResult, logoutCause >>
pairVars == << parked, active, overlapped >>
probeVars == << probePc, probeI, probeAnswered, probeResult >>
exportVars == << exportData, exportPc, exportFile >>
appVars == << fetching, fetchingMeetingId, transcriptData, appAnalyzeResponse,
             error, handlerPc >>
pageVars == << authParam, messageParam, authStatus, loading, loadPc,
              logoutHandlerPc >>
extVars == << pairVars, probeVars, exportVars, appVars, pageVars >>
vars == << requests, orchVars, authVars, logoutVars, extVars >>

None == [kind |-> "none"]

\* The locals of a call of fetchAndAnalyzeMeeting that has not started.
NewFrame ==
    [pc |-> "idle", meetingUrl |-> "", data |-> Undefined, analyzeUrls |-> << >>,
     i |-> 0, analyzeResponse |-> Undefined, analyzeData |-> Undefined,
     lastError |-> Null, fetchCause |-> None,
     answered |-> [k \in 1..Len(baseUrls) |-> None],
     outcome |-> "none", result |-> Undefined, settleCount |-> 0,
     requests |-> << >>]

InitService ==
    /\ testModeParam \in TestModeParams
    /\ requests = << >>
    /\ pc = "idle"
    /\ meetingUrl = ""
    /\ data = Undefined
    /\ analyzeUrls = << >>
    /\ i = 0
    /\ analyzeResponse = Undefined
    /\ analyzeData = Undefined
    /\ lastError = Null
    /\ fetchCause = None
    /\ answered = [k \in 1..Len(baseUrls) |-> None]
    /\ outcome = "none"
    /\ result = Undefined
    /\ settleCount = 0
    /\ authPc = "idle"
    /\ authOutcome = "none"
    /\ authResult = Undefined
    /\ authCause = None
    /\ logoutPc = "idle"
    /\ logoutOutcome = "none"
    /\ logoutResult = Undefined
    /\ logoutCause = None
    /\ parked = NewFrame
    /\ active = 1
    /\ overlapped = FALSE
    /\ probePc = "idle"
    /\ probeI = 0
    /\ probeAnswered = [k \in 1..Len(baseUrls) |-> None]
    /\ probeResult = Undefined

\* No transcript is on display and nothing was downloaded.
InitNoExport ==
    /\ exportData = Null
    /\ exportPc = "idle"
    /\ exportFile = None

\* The useState initial values of the App, no handler running.
AppInitialState ==
    /\ fetching = FALSE
    /\ fetchingMeetingId = Null
    /\ transcriptData = Null
    /\ appAnalyzeResponse = Null
    /\ error = Null
    /\ handlerPc = "idle"

\* The page before its mount effect has run, loaded without parameters.
PageInitialState ==
    /\ authParam = Null
    /\ messageParam = Null
    /\ authStatus = Obj([authenticated |-> Bool(FALSE)])
    /\ loading = TRUE
    /\ loadPc = "initial"
    /\ logoutHandlerPc = "idle"

Init == InitService /\ InitNoExport /\ AppInitialState /\ PageInitialState

(***************************************************************************)
(* Requests and responses.                                                 *)
(***************************************************************************)
Request(method, url, credentials, body) ==
    [method |-> method, url |-> url, credentials |-> credentials, body |-> body]

\* A Response object, before its body is read.
Response(url, status) == [kind |-> "response", url |-> url, status |-> status]

\* Variant of FetchRequest: the credentials option is left out.
FetchRequest_NoCredentials(url) ==
    Request("POST", API_BASE_URL \o "/transcript/fetch", "same-origin",
            Obj([joinUrl |-> Str(url)]))

\* fetch(`${API_BASE_URL}/transcript/fetch`, {method: 'POST', credentials: 'include', ...})
FetchRequest(url) ==
    Request("POST", API_BASE_URL \o "/transcript/fetch", "include",
            Obj([joinUrl |-> Str(url)]))

\* Variant of AnalyzeRequest: the whole fetch response body is posted.
AnalyzeRequest_WholeBody(apiUrl, d) ==
    Request("POST", apiUrl, "omit", d)

\* body: JSON.stringify(data.data); the serialised text stands for the value
AnalyzeRequest(apiUrl, d) ==
    Request("POST", apiUrl, "omit", Get(d, "data"))

IsAnalyzeRequest(r) == \E k \in 1..Len(baseUrls) : r.url \in
    { baseUrls[k] \o "?test_mode=" \o t \o "&llm_timeout=60&user_lookup_timeout=30" :
        t \in {"true", "false"} }

(***************************************************************************)
(* fetchAndAnalyzeMeeting: the values it returns.                          *)
(***************************************************************************)
\* Variant of CatchResult: the exception's message is dropped.
CatchResult_Generic(err) ==
    [success |-> FALSE, error |-> Str("An error occurred during the process")]

\* the outer catch
CatchResult(err) ==
    [success |-> FALSE,
     error |-> Str(IF err.isError THEN err.message
                   ELSE "An error occurred during the process")]

\* Variant of FetchFailedResult: no default text for a missing message.
FetchFailedResult_NoDefault(d) ==
    [success |-> FALSE, error |-> Get(d, "message")]

\* if (!data.success) return {...}
FetchFailedResult(d) ==
    [success |-> FALSE,
     error |-> OrElse(Get(d, "message"), Str("Failed to fetch transcript"))]

\* x.length > 0
LengthPositive(v) ==
    CASE v.kind = "array" -> Len(v.items) > 0
      [] v.kind = "string" -> Len(v.s) > 0
      [] OTHER -> FALSE

\* transcript?.entries?.forEach(...) throws when entries is neither nullish
\* nor an array; the callback only reads fields through ?. and never throws.
SectionLogThrows(section) ==
    LET entries == Get(section, "entries")
    IN ~Nullish(entries) /\ entries.kind # "array"

\* The logging of the original transcript in the 2xx branch:
\* if (data.data?.transcripts?.length > 0) data.data.transcripts.forEach(...)
LogTranscriptThrows(d) ==
    LET transcripts == Get(Get(d, "data"), "transcripts")
    IN /\ LengthPositive(transcripts)
       /\ \/ transcripts.kind # "array"
          \/ \E k \in 1..Len(transcripts.items) :
                SectionLogThrows(transcripts.items[k])

NotAFunction == Err("TypeError", "forEach is not a function")
NullRead == Err("TypeError", "Cannot read properties of null (reading 'success')")

\* lastError?.message || 'Unknown network error'
LastErrorText(lErr) ==
    IF lErr # Null /\ lErr.message # "" THEN lErr.message
    ELSE "Unknown network error"

\* Variant of NetworkFailureResult: unreachable candidates fail the whole call.
NetworkFailureResult_Terminal(d, lErr) ==
    [success |-> FALSE,
     error |-> Str("Analysis failed - could not connect to any analyze API endpoints. Last error: "
                   \o LastErrorText(lErr))]

NetworkFailureResult(d, lErr) ==
    [success |-> TRUE,
     data |-> Get(d, "data"),
     error |-> Str("Analysis failed - could not connect to any analyze API endpoints. Last error: "
                   \o LastErrorText(lErr)
                   \o ". Transcript was fetched successfully.")]

AnalyzeOkResult(d, aData) ==
    [success |-> TRUE, data |-> Get(d, "data"), analyzeResponse |-> aData]

\* analyzeData?.message || 'Unknown error'
AnalyzeMessageText(aData) ==
    LET m == Get(aData, "message")
    IN IF Truthy(m) /\ m.kind = "string" THEN m.s ELSE "Unknown error"

AnalyzeFailedResult(d, aData) ==
    [success |-> TRUE,
     data |-> Get(d, "data"),
     analyzeResponse |-> aData,
     error |-> Str("Analysis failed: " \o AnalyzeMessageText(aData)
                   \o ", but transcript was fetched successfully")]

\* The value returned by the code after the loop, when it does not throw.
AfterLoopResult(d, aResp, aData, lErr) ==
    IF aResp = Undefined THEN NetworkFailureResult(d, lErr)
    ELSE IF Ok(aResp.status) THEN AnalyzeOkResult(d, aData)
         ELSE AnalyzeFailedResult(d, aData)

\* The code after the loop throws: only the logging of the 2xx branch can.
AfterLoopThrows(d, aResp) ==
    aResp # Undefined /\ Ok(aResp.status) /\ LogTranscriptThrows(d)

(***************************************************************************)
(* fetchAndAnalyzeMeeting: the steps.                                      *)
(***************************************************************************)
\* The async function returns r: its promise is fulfilled with r.
Return(r) ==
    /\ result' = r
    /\ outcome' = "fulfilled"
    /\ settleCount' = settleCount + 1
    /\ pc' = "done"

\* Variant of OuterCatch: the exception is thrown on to the caller.
OuterCatch_Rethrows(err) ==
    /\ result' = err
    /\ outcome' = "rejected"
    /\ settleCount' = settleCount + 1
    /\ pc' = "done"

\* An exception reaches the outer catch, which returns a failure result.
OuterCatch(err) == Return(CatchResult(err))

\* The code after the loop runs.
AfterLoop(aResp, aData, lErr) ==
    IF AfterLoopThrows(data, aResp) THEN OuterCatch(NotAFunction)
    ELSE Return(AfterLoopResult(data, aResp, aData, lErr))

\* The call: everything up to the first await.
StartCall(url) ==
    /\ pc = "idle"
    /\ meetingUrl' = url
    /\ requests' = Append(requests, FetchRequest(url))
    /\ outcome' = "pending"
    /\ pc' = "fetch"
    /\ UNCHANGED << testModeParam, data, analyzeUrls, i, analyzeResponse,
                    analyzeData, lastError, fetchCause, answered, result,
                    settleCount, authVars, logoutVars, pairVars, probeVars,
                    exportVars, pageVars >>

\* The call, made by a caller that changes no state of its own.
Start(url) == StartCall(url) /\ UNCHANGED appVars

\* await fetch(.../transcript/fetch) throws.
FetchRejects(e) ==
    /\ pc = "fetch"
    /\ fetchCause' = [kind |-> "transport", error |-> e]
    /\ OuterCatch(e)
    /\ UNCHANGED << testModeParam, requests, meetingUrl, data, analyzeUrls, i,
                    analyzeResponse, analyzeData, lastError, answered,
                    authVars, logoutVars, extVars >>

\* await fetch(.../transcript/fetch) yields a response; response.json() starts.
FetchResponds(status) ==
    /\ pc = "fetch"
    /\ fetchCause' = [kind |-> "response", status |-> status]
    /\ pc' = "fetchJson"
    /\ UNCHANGED << testModeParam, requests, meetingUrl, data, analyzeUrls, i,
                    analyzeResponse, analyzeData, lastError, answered,
                    outcome, result, settleCount, authVars, logoutVars, extVars >>

\* await response.json() throws.
FetchJsonRejects(e) ==
    /\ pc = "fetchJson"
    /\ fetchCause' = [kind |-> "unparsable", status |-> fetchCause.status,
                      error |-> e]
    /\ OuterCatch(e)
    /\ UNCHANGED << testModeParam, requests, meetingUrl, data, analyzeUrls, i,
                    analyzeResponse, analyzeData, lastError, answered,
                    authVars, logoutVars, extVars >>

\* Variant of FetchJsonResolves: phase 2 starts whatever the success field.
FetchJsonResolves_IgnoresSuccess(body) ==
    /\ pc = "fetchJson"
    /\ fetchCause' = [kind |-> "body", status |-> fetchCause.status,
                      body |-> body]
    /\ data' = body
    /\ analyzeUrls' = getAnalyzeApiUrls(testModeParam)
    /\ i' = 1
    /\ requests' = Append(requests, AnalyzeRequest(analyzeUrls'[1], body))
    /\ pc' = "analyze"
    /\ UNCHANGED << outcome, result, settleCount >>
    /\ UNCHANGED << testModeParam, meetingUrl, analyzeResponse, analyzeData,
                    lastError, answered, authVars, logoutVars, extVars >>

\* await response.json() yields body; the code runs up to the return of
\* phase 1 or up to the await of the first candidate's request.
FetchJsonResolves(body) ==
    /\ pc = "fetchJson"
    /\ fetchCause' = [kind |-> "body", status |-> fetchCause.status,
                      body |-> body]
    /\ data' = body
    /\ IF body = Null
       THEN /\ OuterCatch(NullRead)
            /\ UNCHANGED << requests, analyzeUrls, i >>
       ELSE IF ~Truthy(Get(body, "success"))
       THEN /\ Return(FetchFailedResult(body))
            /\ UNCHANGED << requests, analyzeUrls, i >>
       ELSE /\ analyzeUrls' = getAnalyzeApiUrls(testModeParam)
            /\ i' = 1
            /\ requests' = Append(requests, AnalyzeRequest(analyzeUrls'[1], body))
            /\ pc' = "analyze"
            /\ UNCHANGED << outcome, result, settleCount >>
    /\ UNCHANGED << testModeParam, meetingUrl, analyzeResponse, analyzeData,
                    lastError, answered, authVars, logoutVars, extVars >>

\* Variant of LoopNext: the remaining candidates are all requested at once.
LoopNext_Eager(lErr) ==
    IF i < Len(analyzeUrls)
    THEN /\ i' = i + 1
         /\ requests' = requests \o
                [k \in 1..(Len(analyzeUrls) - i) |->
                    AnalyzeRequest(analyzeUrls[i + k], data)]
         /\ pc' = "analyze"
         /\ UNCHANGED << outcome, result, settleCount >>
    ELSE /\ AfterLoop(analyzeResponse, analyzeData, lErr)
         /\ UNCHANGED << requests, i >>

\* The end of a loop iteration that did not break: the next candidate's
\* request is issued, or the loop is over and the code after it runs.
LoopNext(lErr) ==
    IF i < Len(analyzeUrls)
    THEN /\ i' = i + 1
         /\ requests' = Append(requests, AnalyzeRequest(analyzeUrls[i + 1], data))
         /\ pc' = "analyze"
         /\ UNCHANGED << outcome, result, settleCount >>
    ELSE /\ AfterLoop(analyzeResponse, analyzeData, lErr)
         /\ UNCHANGED << requests, i >>

\* catch (analyzeError): lastError = analyzeError instanceof Error ? ... : ...
CaughtInLoop(e) == IF e.isError THEN e ELSE Err("Error", "Unknown error")

\* Variant of AnalyzeRejects: only the first failure is remembered.
AnalyzeRejects_KeepsFirstError(e) ==
    /\ pc = "analyze"
    /\ answered' = [answered EXCEPT ![i] = [kind |-> "transport", error |-> e]]
    /\ lastError' = IF lastError = Null THEN CaughtInLoop(e) ELSE lastError
    /\ LoopNext(lastError')
    /\ UNCHANGED << testModeParam, meetingUrl, data, analyzeUrls,
                    analyzeResponse, analyzeData, fetchCause,
                    authVars, logoutVars, extVars >>

\* analyzeResponse = await fetch(apiUrl, ...) throws.
AnalyzeRejects(e) ==
    /\ pc = "analyze"
    /\ answered' = [answered EXCEPT ![i] = [kind |-> "transport", error |-> e]]
    /\ lastError' = CaughtInLoop(e)
    /\ LoopNext(lastError')
    /\ UNCHANGED << testModeParam, meetingUrl, data, analyzeUrls,
                    analyzeResponse, analyzeData, fetchCause,
                    authVars, logoutVars, extVars >>

\* analyzeResponse = await fetch(apiUrl, ...) yields a response;
\* analyzeResponse.json() starts.
AnalyzeResponds(status) ==
    /\ pc = "analyze"
    /\ answered' = [answered EXCEPT ![i] = [kind |-> "response", status |-> status]]
    /\ analyzeResponse' = Response(analyzeUrls[i], status)
    /\ pc' = "analyzeJson"
    /\ UNCHANGED << testModeParam, requests, meetingUrl, data, analyzeUrls, i,
                    analyzeData, lastError, fetchCause, outcome, result,
                    settleCount, authVars, logoutVars, extVars >>

\* analyzeData = await analyzeResponse.json() yields body; break.
AnalyzeJsonResolves(body) ==
    /\ pc = "analyzeJson"
    /\ answered' = [answered EXCEPT ![i] =
                       [kind |-> "body", status |-> answered[i].status,
                        body |-> body]]
    /\ analyzeData' = body
    /\ AfterLoop(analyzeResponse, body, lastError)
    /\ UNCHANGED << testModeParam, requests, meetingUrl, data, analyzeUrls, i,
                    analyzeResponse, lastError, fetchCause,
                    authVars, logoutVars, extVars >>

\* analyzeData = await analyzeResponse.json() throws: the loop's catch.
AnalyzeJsonRejects(e) ==
    /\ pc = "analyzeJson"
    /\ answered' = [answered EXCEPT ![i] =
                       [kind |-> "unparsable", status |-> answered[i].status,
                        error |-> e]]
    /\ lastError' = CaughtInLoop(e)
    /\ LoopNext(lastError')
    /\ UNCHANGED << testModeParam, meetingUrl, data, analyzeUrls,
                    analyzeResponse, analyzeData, fetchCause,
                    authVars, logoutVars, extVars >>

Next ==
    \/ \E url \in MeetingUrls : Start(url)
    \/ \E e \in TransportErrors : FetchRejects(e)
    \/ \E status \in Statuses : FetchResponds(status)
    \/ \E e \in ParseErrors : FetchJsonRejects(e)
    \/ \E body \in FetchBodies : FetchJsonResolves(body)
    \/ \E e \in TransportErrors : AnalyzeRejects(e)
    \/ \E status \in Statuses : AnalyzeResponds(status)
    \/ pc = "analyzeJson" /\ \E body \in AnalyzeBodies(i) : AnalyzeJsonResolves(body)
    \/ \E e \in ParseErrors : AnalyzeJsonRejects(e)

Spec == Init /\ [][Next]_vars

(***************************************************************************)
(* checkAuthStatus.                                                        *)
(***************************************************************************)
\* JSON bodies /auth/status can answer: AuthStatus objects, and bodies that
\* are not (an error body of a failing backend, a non-boolean flag).
AuthBodies ==
    { Null,
      Obj([authenticated |-> Bool(TRUE),
           user |-> Obj([displayName |-> Str("Ann"), email |-> Str("ann@example.com")])]),
      Obj([authenticated |-> Bool(FALSE),
           loginUrl |-> Str(API_BASE_URL \o "/auth/login")]),
      Obj([error |-> Str("Internal Server Error")]),
      Obj([authenticated |-> Str("yes")]),
      Str("OK") }

\* url: `${API_BASE_URL}/auth/status?t=${Date.now()}`
AuthRequest ==
    Request("GET", API_BASE_URL \o "/auth/status?t=<now>", "include", Undefined)

\* catch (err) { return { authenticated: false } }
AuthCatchResult == Obj([authenticated |-> Bool(FALSE)])

AuthReturn(v) ==
    /\ authResult' = v
    /\ authOutcome' = "fulfilled"
    /\ authPc' = "done"

\* The call: everything up to the first await.
AuthStartCall ==
    /\ authPc = "idle"
    /\ requests' = Append(requests, AuthRequest)
    /\ authOutcome' = "pending"
    /\ authPc' = "fetch"
    /\ UNCHANGED << orchVars, authResult, authCause, logoutVars, pairVars,
                    probeVars, exportVars, appVars >>

\* The call, made by a caller that changes no state of its own.
AuthStart == AuthStartCall /\ UNCHANGED pageVars

\* Variant of AuthFetchRejects: the transport error reaches the caller.
AuthFetchRejects_Propagates(e) ==
    /\ authPc = "fetch"
    /\ authCause' = [kind |-> "transport", error |-> e]
    /\ authResult' = e
    /\ authOutcome' = "rejected"
    /\ authPc' = "done"
    /\ UNCHANGED << requests, orchVars, logoutVars, extVars >>

\* await fetch(url, ...) throws.
AuthFetchRejects(e) ==
    /\ authPc = "fetch"
    /\ authCause' = [kind |-> "transport", error |-> e]
    /\ AuthReturn(AuthCatchResult)
    /\ UNCHANGED << requests, orchVars, logoutVars, extVars >>

\* await fetch(url, ...) yields a response; response.json() starts.
AuthFetchResponds(status) ==
    /\ authPc = "fetch"
    /\ authCause' = [kind |-> "response", status |-> status]
    /\ authPc' = "json"
    /\ UNCHANGED << requests, orchVars, authOutcome, authResult, logoutVars, extVars >>

\* await response.json() throws.
AuthJsonRejects(e) ==
    /\ authPc = "json"
    /\ authCause' = [kind |-> "unparsable", status |-> authCause.status,
                     error |-> e]
    /\ AuthReturn(AuthCatchResult)
    /\ UNCHANGED << requests, orchVars, logoutVars, extVars >>

\* await response.json() yields body; console.log(..., data.authenticated)
\* throws on null, otherwise the body is returned as it is.
AuthJsonResolves(body) ==
    /\ authPc = "json"
    /\ authCause' = [kind |-> "body", status |-> authCause.status, body |-> body]
    /\ AuthReturn(IF Nullish(body) THEN AuthCatchResult ELSE body)
    /\ UNCHANGED << requests, orchVars, logoutVars, extVars >>

(***************************************************************************)
(* logout.                                                                 *)
(***************************************************************************)
LogoutRequest ==
    Request("GET", API_BASE_URL \o "/auth/logout", "include", Undefined)

\* The call: everything up to the first await.
LogoutStartCall ==
    /\ logoutPc = "idle"
    /\ requests' = Append(requests, LogoutRequest)
    /\ logoutOutcome' = "pending"
    /\ logoutPc' = "fetch"
    /\ UNCHANGED << orchVars, authVars, logoutResult, logoutCause, pairVars,
                    probeVars, exportVars, appVars >>

\* The call, made by a caller that changes no state of its own.
LogoutStart == LogoutStartCall /\ UNCHANGED pageVars

\* Variant of LogoutFetchRejects: the error is logged and swallowed.
LogoutFetchRejects_Swallows(e) ==
    /\ logoutPc = "fetch"
    /\ logoutCause' = [kind |-> "transport", error |-> e]
    /\ logoutOutcome' = "fulfilled"
    /\ logoutPc' = "done"
    /\ UNCHANGED << requests, orchVars, authVars, logoutResult, extVars >>

\* await fetch(...) throws: catch (err) { ...; throw err }
LogoutFetchRejects(e) ==
    /\ logoutPc = "fetch"
    /\ logoutCause' = [kind |-> "transport", error |-> e]
    /\ logoutResult' = e
    /\ logoutOutcome' = "rejected"
    /\ logoutPc' = "done"
    /\ UNCHANGED << requests, orchVars, authVars, extVars >>

\* await fetch(...) yields a response, which is not looked at.
LogoutFetchResponds(status) ==
    /\ logoutPc = "fetch"
    /\ logoutCause' = [kind |-> "response", status |-> status]
    /\ logoutOutcome' = "fulfilled"
    /\ logoutPc' = "done"
    /\ UNCHANGED << requests, orchVars, authVars, logoutResult, extVars >>

NextAuth ==
    \/ AuthStart
    \/ \E e \in TransportErrors : AuthFetchRejects(e)
    \/ \E status \in Statuses : AuthFetchResponds(status)
    \/ \E e \in ParseErrors : AuthJsonRejects(e)
    \/ \E body \in AuthBodies : AuthJsonResolves(body)
    \/ LogoutStart
    \/ \E e \in TransportErrors : LogoutFetchRejects(e)
    \/ \E status \in Statuses : LogoutFetchResponds(status)

SpecAuth == Init /\ [][NextAuth]_vars

(***************************************************************************)
(* Vocabulary of the properties.                                           *)
(***************************************************************************)
Done == pc = "done"

\* The analyze requests issued so far, in order.
AnalyzeRequests == SelectSeq(requests, IsAnalyzeRequest)

\* The /transcript/fetch body was read and its success field is truthy.
FetchSucceeded ==
    fetchCause.kind = "body" /\ fetchCause.body # Null
        /\ Truthy(Get(fetchCause.body, "success"))

\* The transcript carried by the /transcript/fetch body.
FetchedTranscript == Get(fetchCause.body, "data")

\* Candidate k was requested.
Attempted(k) == answered[k] # None \/ (pc \in {"analyze", "analyzeJson"} /\ i = k)

\* Candidate k's request ended with an HTTP response (body readable or not).
Responded(k) == answered[k].kind \in {"response", "body", "unparsable"}

\* r.f, undefined when r has no field f
Field(r, f) == IF f \in DOMAIN r THEN r[f] ELSE Undefined

NonEmptyText(v) == v.kind = "string" /\ v.s # ""

(***************************************************************************)
(* C1.  When the /transcript/fetch body has success false, the call        *)
(* returns {success:false, error} with error the body's message when the   *)
(* message is non-empty and 'Failed to fetch transcript' otherwise, and no *)
(* analyze request is issued.                                              *)
(***************************************************************************)
FetchSaidFalse ==
    fetchCause.kind = "body" /\ Get(fetchCause.body, "success") = Bool(FALSE)

C1_FetchFailure ==
    FetchSaidFalse =>
        /\ Len(AnalyzeRequests) = 0
        /\ Done
        /\ result = [success |-> FALSE,
                     error |-> IF Truthy(Get(fetchCause.body, "message"))
                               THEN Get(fetchCause.body, "message")
                               ELSE Str("Failed to fetch transcript")]

\* C1 as first stated: the message is returned whenever the body has one.
C1_Original ==
    FetchSaidFalse =>
        /\ Len(AnalyzeRequests) = 0
        /\ Done
        /\ result = [success |-> FALSE,
                     error |-> IF "message" \in DOMAIN fetchCause.body.fields
                               THEN Get(fetchCause.body, "message")
                               ELSE Str("Failed to fetch transcript")]

C1_Witness ==
    /\ FetchSaidFalse /\ Done
    /\ Get(fetchCause.body, "message") = Str("")
    /\ result.error = Str("Failed to fetch transcript")

(***************************************************************************)
(* C2.  Candidates are requested in list order, candidate k+1 only after   *)
(* candidate k failed at the transport level: once a candidate has         *)
(* returned an HTTP response no later candidate is requested.              *)
(***************************************************************************)
C2_Original ==
    /\ \A j \in 1..Len(AnalyzeRequests) :
          AnalyzeRequests[j].url = getAnalyzeApiUrls(testModeParam)[j]
    /\ \A k \in 1..(Len(baseUrls) - 1) :
          Attempted(k + 1) => answered[k].kind = "transport"

(***************************************************************************)
(* C3.  After a successful fetch, when every candidate raised a transport  *)
(* error the call returns success true, the fetched transcript as data, a  *)
(* non-empty error and no analyzeResponse.                                 *)
(***************************************************************************)
AllTransportFailed == \A k \in 1..Len(baseUrls) : answered[k].kind = "transport"

C3_AllCandidatesUnreachable ==
    (FetchSucceeded /\ AllTransportFailed) =>
        /\ Done
        /\ result.success = TRUE
        /\ "data" \in DOMAIN result /\ result.data = FetchedTranscript
        /\ NonEmptyText(Field(result, "error"))
        /\ Field(result, "analyzeResponse") = Undefined

C3_Witness ==
    /\ FetchSucceeded /\ AllTransportFailed /\ Done
    /\ result.success = TRUE
    /\ FetchedTranscript \in Transcripts

(***************************************************************************)
(* C4.  After a successful fetch, when the first candidate returns a       *)
(* non-2xx response no second candidate is requested, and the call returns *)
(* success true with data, that response's parsed body as analyzeResponse  *)
(* and a non-empty error.                                                  *)
(***************************************************************************)
C4_Original ==
    (FetchSucceeded /\ Responded(1) /\ ~Ok(answered[1].status)) =>
        /\ ~Attempted(2)
        /\ Done =>
             /\ result.success = TRUE
             /\ Field(result, "data") = FetchedTranscript
             /\ answered[1].kind = "body"
             /\ "analyzeResponse" \in DOMAIN result
             /\ result.analyzeResponse = answered[1].body
             /\ NonEmptyText(Field(result, "error"))

(***************************************************************************)
(* C5.  After a successful fetch, when the first candidate throws a        *)
(* transport error and the second returns a 2xx response, the call returns *)
(* success true with data, the second candidate's body as analyzeResponse  *)
(* and no error field; and whenever the candidate that ends the loop       *)
(* answered 2xx the result is {success:true, data, analyzeResponse}.       *)
(***************************************************************************)
\* The candidate of the last loop iteration.
LastAttempted == i

C5_Original ==
    Done =>
        /\ ( /\ FetchSucceeded
             /\ answered[1].kind = "transport"
             /\ Responded(2) /\ Ok(answered[2].status) ) =>
                /\ answered[2].kind = "body"
                /\ result = [success |-> TRUE, data |-> FetchedTranscript,
                             analyzeResponse |-> answered[2].body]
        /\ ( /\ FetchSucceeded
             /\ Responded(LastAttempted) /\ Ok(answered[LastAttempted].status) ) =>
                /\ DOMAIN result = {"success", "data", "analyzeResponse"}
                /\ result.success = TRUE
                /\ result.data = FetchedTranscript

(***************************************************************************)
(* C6.  The promise returned by fetchAndAnalyzeMeeting never rejects and   *)
(* settles at most once; the value it resolves with has a boolean success, *)
(* and when success is false it has an error and neither data nor          *)
(* analyzeResponse.                                                        *)
(***************************************************************************)
C6_NeverRejects ==
    /\ outcome \in {"none", "pending", "fulfilled"}
    /\ settleCount <= 1
    /\ Done <=> settleCount = 1
    /\ Done =>
         /\ outcome = "fulfilled"
         /\ "success" \in DOMAIN result /\ result.success \in BOOLEAN
         /\ result.success = FALSE =>
               /\ "error" \in DOMAIN result
               /\ "data" \notin DOMAIN result
               /\ "analyzeResponse" \notin DOMAIN result

\* An exception of phase 2 (the logging of a transcript that is not of the
\* declared shape) was converted into a failure result.
C6_Witness ==
    /\ Done /\ FetchSucceeded
    /\ Responded(LastAttempted) /\ Ok(answered[LastAttempted].status)
    /\ result = [success |-> FALSE, error |-> Str(NotAFunction.message)]

(***************************************************************************)
(* C7.  When the /transcript/fetch request throws or its body cannot be    *)
(* parsed, the call returns {success:false, error: the exception's         *)
(* message} and no analyze request is issued.                              *)
(***************************************************************************)
FetchThrew == fetchCause.kind \in {"transport", "unparsable"}

C7_FetchException ==
    FetchThrew =>
        /\ Done
        /\ result = [success |-> FALSE, error |-> Str(fetchCause.error.message)]
        /\ Len(AnalyzeRequests) = 0

C7_Witness ==
    /\ Done
    /\ fetchCause.kind = "unparsable"
    /\ result = [success |-> FALSE,
                 error |-> Str("Unexpected token < in JSON at position 0")]

(***************************************************************************)
(* C8.  checkAuthStatus never rejects, and the value it resolves to is an  *)
(* AuthStatus: an object with a boolean authenticated field.               *)
(***************************************************************************)
IsAuthStatus(v) == v.kind = "object" /\ Get(v, "authenticated").kind = "boolean"

C8_Original ==
    /\ authOutcome # "rejected"
    /\ authPc = "done" => (authOutcome = "fulfilled" /\ IsAuthStatus(authResult))

(***************************************************************************)
(* C9.  When the /auth/status request fails at the network level or its    *)
(* body fails to parse, checkAuthStatus resolves to {authenticated:false}. *)
(***************************************************************************)
AuthRequestFailed == authCause.kind \in {"transport", "unparsable"}

C9_AuthFailureIsLoggedOut ==
    AuthRequestFailed =>
        /\ authPc = "done"
        /\ authOutcome = "fulfilled"
        /\ authResult = Obj([authenticated |-> Bool(FALSE)])

C9_Witness ==
    /\ authCause.kind = "transport"
    /\ authOutcome = "fulfilled"
    /\ authResult = Obj([authenticated |-> Bool(FALSE)])

(***************************************************************************)
(* C10.  logout rejects with the error of the /auth/logout request when    *)
(* that request fails, and resolves only when the request did not fail     *)
(* (an HTTP response of any status is not a failure of the request).       *)
(***************************************************************************)
C10_LogoutPropagates ==
    /\ logoutCause.kind = "transport" =>
          /\ logoutOutcome = "rejected"
          /\ logoutResult = logoutCause.error
    /\ logoutOutcome = "fulfilled" => logoutCause.kind = "response"
    /\ logoutCause.kind = "response" => logoutOutcome = "fulfilled"

C10_Witness ==
    /\ logoutOutcome = "rejected"
    /\ logoutCause.kind = "transport"
    /\ logoutResult = Err("TypeError", "Failed to fetch")

(***************************************************************************)
(* C11.  The analyze loop is strictly sequential: at most one analyze      *)
(* request is in flight, a candidate is requested only after the request   *)
(* of the candidate before it has settled (its fetch and the reading of    *)
(* its body are over), each candidate is requested at most once, and the   *)
(* call goes on only when the request in flight has settled by itself.     *)
(***************************************************************************)
\* Requests that are not addressed to the backend origin.
CandidateRequests ==
    SelectSeq(requests, LAMBDA r : r.url \notin
        { API_BASE_URL \o "/transcript/fetch",
          API_BASE_URL \o "/auth/status?t=<now>",
          API_BASE_URL \o "/auth/logout" })

\* The candidates whose request was issued and whose fetch() is pending.
InFlight ==
    { k \in 1..Len(baseUrls) :
        /\ \E j \in 1..Len(CandidateRequests) :
              CandidateRequests[j].url = getAnalyzeApiUrls(testModeParam)[k]
        /\ answered[k] = None }

C11_Sequential ==
    /\ Cardinality(InFlight) <= 1
    /\ Len(CandidateRequests) <= Len(baseUrls)
    /\ \A j1, j2 \in 1..Len(CandidateRequests) :
          CandidateRequests[j1].url = CandidateRequests[j2].url => j1 = j2
    /\ \A j \in 2..Len(CandidateRequests) :
          answered[j - 1].kind \in {"transport", "body", "unparsable"}
    /\ (pc = "analyze") => InFlight = {i}
    /\ Done => InFlight = {}

C11_Witness ==
    /\ Len(CandidateRequests) = 3
    /\ InFlight = {3}
    /\ answered[1].kind = "transport"
    /\ answered[2].kind = "unparsable"

(***************************************************************************)
(* Two calls of fetchAndAnalyzeMeeting on the one event loop.  Every local *)
(* of the function (data, analyzeResponse, analyzeData, lastError,         *)
(* analyzeUrls, the loop position) is declared inside the function, so     *)
(* each call has its own copy; the module-level constants and the page's   *)
(* query string are only read.  The variables hold the locals of the call  *)
(* that runs; `parked` holds those of the other call, which waits at an    *)
(* await.  The event loop may turn to the other call at any await.         *)
(***************************************************************************)
\* The locals of the running call, and the requests it issued.
Frame ==
    [pc |-> pc, meetingUrl |-> meetingUrl, data |-> data,
     analyzeUrls |-> analyzeUrls, i |-> i,
     analyzeResponse |-> analyzeResponse, analyzeData |-> analyzeData,
     lastError |-> lastError, fetchCause |-> fetchCause, answered |-> answered,
     outcome |-> outcome, result |-> result, settleCount |-> settleCount,
     requests |-> requests]

InFlightPc(p) == p \notin {"idle", "done"}

\* Variant of Switch: analyzeResponse, analyzeData and lastError are
\* module-level variables, shared by all calls.
Switch_SharedLoopState ==
    /\ parked' = Frame
    /\ active' = 3 - active
    /\ overlapped' = (overlapped \/ (InFlightPc(pc) /\ InFlightPc(parked.pc)))
    /\ pc' = parked.pc
    /\ meetingUrl' = parked.meetingUrl
    /\ data' = parked.data
    /\ analyzeUrls' = parked.analyzeUrls
    /\ i' = parked.i
    /\ fetchCause' = parked.fetchCause
    /\ answered' = parked.answered
    /\ outcome' = parked.outcome
    /\ result' = parked.result
    /\ settleCount' = parked.settleCount
    /\ requests' = parked.requests
    /\ UNCHANGED << analyzeResponse, analyzeData, lastError,
                    testModeParam, authVars, logoutVars, probeVars, exportVars,
                    appVars, pageVars >>

\* The event loop turns from the running call to the other one.
Switch ==
    /\ parked' = Frame
    /\ active' = 3 - active
    /\ overlapped' = (overlapped \/ (InFlightPc(pc) /\ InFlightPc(parked.pc)))
    /\ pc' = parked.pc
    /\ meetingUrl' = parked.meetingUrl
    /\ data' = parked.data
    /\ analyzeUrls' = parked.analyzeUrls
    /\ i' = parked.i
    /\ analyzeResponse' = parked.analyzeResponse
    /\ analyzeData' = parked.analyzeData
    /\ lastError' = parked.lastError
    /\ fetchCause' = parked.fetchCause
    /\ answered' = parked.answered
    /\ outcome' = parked.outcome
    /\ result' = parked.result
    /\ settleCount' = parked.settleCount
    /\ requests' = parked.requests
    /\ UNCHANGED << testModeParam, authVars, logoutVars, probeVars, exportVars,
                    appVars, pageVars >>

\* The answers of the network in the runs of two calls.
PairErrors == { Err("TypeError", "Failed to fetch") }
PairStatuses == {200, 500}
PairFetchBodies ==
    { FetchBody(Bool(FALSE), Str("Meeting not found"), Undefined) } \cup
    { FetchBody(Bool(TRUE), Undefined, d) :
        d \in { Obj([meetingInfo |-> MeetingInfo, transcripts |-> Arr(<< >>)]),
                Obj([meetingInfo |-> MeetingInfo, transcripts |-> Str("n/a")]) } }
PairAnalyzeBodies(k) ==
    { Obj([served_by |-> Str(baseUrls[k]), message |-> Str("LLM timeout")]) }

\* The first call is for one meeting, the second for the other.
PairMeetingUrls ==
    << "https://teams.microsoft.com/meet/34349166966557?p=LxX7J4WLhDKz2oYJcA",
       "https://teams.microsoft.com/meet/32829331378792?p=1OLQSl9P0J3jj8cXYd" >>

InitPair == Init /\ testModeParam \in {Null, Str("false")}

NextPair ==
    \/ Start(PairMeetingUrls[active])
    \/ \E e \in PairErrors : FetchRejects(e)
    \/ FetchResponds(200)
    \/ \E body \in PairFetchBodies : FetchJsonResolves(body)
    \/ \E e \in PairErrors : AnalyzeRejects(e)
    \/ \E status \in PairStatuses : AnalyzeResponds(status)
    \/ pc = "analyzeJson" /\ \E body \in PairAnalyzeBodies(i) : AnalyzeJsonResolves(body)
    \/ \E e \in ParseErrors : AnalyzeJsonRejects(e)
    \/ Switch

SpecPair == InitPair /\ [][NextPair]_vars

(***************************************************************************)
(* What one call returns when it runs alone and the network answers its    *)
(* requests with fc (the /transcript/fetch request) and ans (the analyze   *)
(* candidates, None for a candidate that is not reached).                  *)
(***************************************************************************)
RECURSIVE SoloLoop(_, _, _, _, _, _)
SoloLoop(k, d, ans, aResp, lErr, param) ==
    IF k > Len(baseUrls)
    THEN IF AfterLoopThrows(d, aResp) THEN CatchResult(NotAFunction)
         ELSE AfterLoopResult(d, aResp, Undefined, lErr)
    ELSE IF ans[k].kind = "transport"
    THEN SoloLoop(k + 1, d, ans, aResp, CaughtInLoop(ans[k].error), param)
    ELSE IF ans[k].kind = "unparsable"
    THEN SoloLoop(k + 1, d, ans,
                  Response(getAnalyzeApiUrls(param)[k], ans[k].status),
                  CaughtInLoop(ans[k].error), param)
    ELSE LET r == Response(getAnalyzeApiUrls(param)[k], ans[k].status)
         IN IF AfterLoopThrows(d, r) THEN CatchResult(NotAFunction)
            ELSE AfterLoopResult(d, r, ans[k].body, lErr)

SoloResult(fc, ans, param) ==
    IF fc.kind \in {"transport", "unparsable"} THEN CatchResult(fc.error)
    ELSE IF fc.body = Null THEN CatchResult(NullRead)
    ELSE IF ~Truthy(Get(fc.body, "success")) THEN FetchFailedResult(fc.body)
    ELSE SoloLoop(1, fc.body, ans, Undefined, Null, param)

\* The requests one call issues when it runs alone with these answers.
SoloRequests(url, fc, ans, param) ==
    << FetchRequest(url) >> \o
    ( IF fc.kind = "body" /\ fc.body # Null /\ Truthy(Get(fc.body, "success"))
      THEN LET n == Cardinality({ k \in 1..Len(baseUrls) : ans[k] # None })
           IN [k \in 1..n |-> AnalyzeRequest(getAnalyzeApiUrls(param)[k], fc.body)]
      ELSE << >> )

(***************************************************************************)
(* C12.  Two calls whose network steps interleave in any order are         *)
(* independent: the result of each, and the requests it issued, are those  *)
(* of a call that runs alone and receives the same answers to its own      *)
(* requests.                                                               *)
(***************************************************************************)
C12_Independent ==
    /\ pc = "done" =>
          /\ result = SoloResult(fetchCause, answered, testModeParam)
          /\ requests = SoloRequests(meetingUrl, fetchCause, answered, testModeParam)
    /\ parked.pc = "done" =>
          /\ parked.result =
                SoloResult(parked.fetchCause, parked.answered, testModeParam)
          /\ parked.requests =
                SoloRequests(parked.meetingUrl, parked.fetchCause,
                             parked.answered, testModeParam)

\* Both calls were in flight together and ended differently.
C12_Witness ==
    /\ overlapped
    /\ pc = "done" /\ parked.pc = "done"
    /\ result.success = TRUE /\ "analyzeResponse" \in DOMAIN result
    /\ parked.result.success = TRUE /\ "analyzeResponse" \notin DOMAIN parked.result

(***************************************************************************)
(* C13.  Every analyze request goes to its candidate's base URL followed   *)
(* by '?test_mode=<flag>&llm_timeout=60&user_lookup_timeout=30'; the flag  *)
(* is true exactly when the page has no test_mode parameter or the         *)
(* parameter is 'true', and it is the same for all candidates of a call.   *)
(***************************************************************************)
C13_AnalyzeUrl ==
    \A j \in 1..Len(CandidateRequests) :
        /\ testModeParam \in {Null, Str("true")} =>
              CandidateRequests[j].url =
                 baseUrls[j] \o "?test_mode=true&llm_timeout=60&user_lookup_timeout=30"
        /\ testModeParam \notin {Null, Str("true")} =>
              CandidateRequests[j].url =
                 baseUrls[j] \o "?test_mode=false&llm_timeout=60&user_lookup_timeout=30"

C13_Witness ==
    /\ testModeParam = Null
    /\ Len(CandidateRequests) = 3
    /\ CandidateRequests[3].url =
          "http://0.0.0.0:8000/api/v1/analyze?test_mode=true&llm_timeout=60&user_lookup_timeout=30"

(***************************************************************************)
(* testAnalyzeApiConnectivity.                                             *)
(***************************************************************************)
\* apiUrl.split('?')[0]: the part of an analyze URL before its query string.
StripQuery(apiUrl) ==
    CHOOSE b \in { baseUrls[k] : k \in 1..Len(baseUrls) } :
        \E t \in {"true", "false"} :
            apiUrl = b \o "?test_mode=" \o t \o "&llm_timeout=60&user_lookup_timeout=30"

\* fetch(apiUrl.split('?')[0], { method: 'OPTIONS', mode: 'cors' }): no
\* credentials option, so the default 'same-origin' applies.
ProbeRequest(apiUrl) ==
    Request("OPTIONS", StripQuery(apiUrl), "same-origin", Undefined)

ProbeFailedResult ==
    [success |-> FALSE,
     error |-> Str("Could not connect to any analyze API endpoints. Make sure the Python service is running on port 8000.")]

ProbeStart ==
    /\ probePc = "idle"
    /\ probeI' = 1
    /\ requests' = Append(requests, ProbeRequest(getAnalyzeApiUrls(testModeParam)[1]))
    /\ probePc' = "probe"
    /\ UNCHANGED << orchVars, authVars, logoutVars, pairVars, exportVars,
                    appVars, pageVars, probeAnswered,
                    probeResult >>

\* await fetch(...) throws: the catch logs, and the loop goes on.
ProbeRejects(e) ==
    /\ probePc = "probe"
    /\ probeAnswered' = [probeAnswered EXCEPT ![probeI] =
                            [kind |-> "transport", error |-> e]]
    /\ IF probeI < Len(baseUrls)
       THEN /\ probeI' = probeI + 1
            /\ requests' = Append(requests,
                   ProbeRequest(getAnalyzeApiUrls(testModeParam)[probeI + 1]))
            /\ UNCHANGED << probePc, probeResult >>
       ELSE /\ probeResult' = ProbeFailedResult
            /\ probePc' = "done"
            /\ UNCHANGED << probeI, requests >>
    /\ UNCHANGED << orchVars, authVars, logoutVars, pairVars, exportVars,
                    appVars, pageVars >>

\* Variant of ProbeResponds: only a 2xx answer counts as reachable.
ProbeResponds_OnlyOk(status) ==
    /\ probePc = "probe"
    /\ probeAnswered' = [probeAnswered EXCEPT ![probeI] =
                            [kind |-> "response", status |-> status]]
    /\ IF Ok(status)
       THEN /\ probeResult' =
                  [success |-> TRUE,
                   workingUrl |-> Str(getAnalyzeApiUrls(testModeParam)[probeI])]
            /\ probePc' = "done"
            /\ UNCHANGED << probeI, requests >>
       ELSE IF probeI < Len(baseUrls)
       THEN /\ probeI' = probeI + 1
            /\ requests' = Append(requests,
                   ProbeRequest(getAnalyzeApiUrls(testModeParam)[probeI + 1]))
            /\ UNCHANGED << probePc, probeResult >>
       ELSE /\ probeResult' = ProbeFailedResult
            /\ probePc' = "done"
            /\ UNCHANGED << probeI, requests >>
    /\ UNCHANGED << orchVars, authVars, logoutVars, pairVars, exportVars,
                    appVars, pageVars >>

\* await fetch(...) yields a response of any status:
\* return { success: true, workingUrl: apiUrl }
ProbeResponds(status) ==
    /\ probePc = "probe"
    /\ probeAnswered' = [probeAnswered EXCEPT ![probeI] =
                            [kind |-> "response", status |-> status]]
    /\ probeResult' =
          [success |-> TRUE,
           workingUrl |-> Str(getAnalyzeApiUrls(testModeParam)[probeI])]
    /\ probePc' = "done"
    /\ UNCHANGED << probeI, requests, orchVars, authVars, logoutVars, pairVars,
                    exportVars, appVars, pageVars >>

NextProbe ==
    \/ ProbeStart
    \/ \E e \in TransportErrors : ProbeRejects(e)
    \/ \E status \in Statuses : ProbeResponds(status)

SpecProbe == Init /\ [][NextProbe]_vars

(***************************************************************************)
(* C14.  testAnalyzeApiConnectivity probes the candidates in list order,   *)
(* returns {success:true, workingUrl} for the first candidate whose probe  *)
(* receives a response and probes none after it, and returns               *)
(* {success:false, error} exactly when every probe failed at the transport *)
(* level.                                                                  *)
(***************************************************************************)
ProbeDone == probePc = "done"

\* The first candidate whose probe received a response, 0 if there is none.
FirstReachable ==
    IF \E k \in 1..Len(baseUrls) : probeAnswered[k].kind = "response"
    THEN CHOOSE k \in 1..Len(baseUrls) :
            /\ probeAnswered[k].kind = "response"
            /\ \A j \in 1..(k - 1) : probeAnswered[j].kind # "response"
    ELSE 0

C14_Connectivity ==
    /\ \A j \in 1..Len(requests) :
          requests[j].url = baseUrls[j] /\ requests[j].method = "OPTIONS"
    /\ \A k \in 2..Len(requests) : probeAnswered[k - 1].kind = "transport"
    /\ FirstReachable # 0 =>
          /\ ProbeDone
          /\ Len(requests) = FirstReachable
          /\ DOMAIN probeResult = {"success", "workingUrl"}
          /\ probeResult.success = TRUE
          /\ probeResult.workingUrl =
                Str(getAnalyzeApiUrls(testModeParam)[FirstReachable])
    /\ ProbeDone =>
          ( (probeResult.success = FALSE /\ "error" \in DOMAIN probeResult)
              <=> \A k \in 1..Len(baseUrls) : probeAnswered[k].kind = "transport" )

\* The third candidate answers, with an error status, after two failures.
C14_Witness ==
    /\ ProbeDone
    /\ FirstReachable = 3
    /\ probeAnswered[3].status = 500
    /\ probeResult.success = TRUE

(***************************************************************************)
(* Transcript export (App.downloadTranscript).  A JavaScript string is     *)
(* kept as the non-empty sequence of its lines, i.e. what splitting it on  *)
(* the line break gives; concatenation glues the last line of the left     *)
(* string to the first line of the right one.                              *)
(***************************************************************************)
MaxSections == 2
MaxEntries == 2

\* A text field holding the section divider of the export.
MultiLineText == "Agenda\n\n---\n\nNext"

\* s.split('\n') for the strings the model uses.
Lines(s) ==
    IF s = MultiLineText THEN << "Agenda", "", "---", "", "Next" >> ELSE << s >>

\* a + b
Cat(a, b) == SubSeq(a, 1, Len(a) - 1) \o << a[Len(a)] \o b[1] >> \o Tail(b)

\* A template string: its pieces, concatenated.
RECURSIVE CatAll(_)
CatAll(ts) == IF ts = << >> THEN << "" >> ELSE Cat(Head(ts), CatAll(Tail(ts)))

\* ts.join(sep)
RECURSIVE Join(_, _)
Join(ts, sep) ==
    IF ts = << >> THEN << "" >>
    ELSE IF Len(ts) = 1 THEN ts[1]
    ELSE Cat(ts[1], Cat(sep, Join(Tail(ts), sep)))

\* '\n' and '\n\n---\n\n'
LineBreak == << "", "" >>
Divider == << "", "", "---", "", "" >>

\* `${v || fallback}` for a string-or-absent v
TextOr(v, fallback) == IF Truthy(v) THEN Lines(v.s) ELSE << fallback >>

\* `${index + 1}`
IndexText(n) ==
    CASE n = 1 -> "1" [] n = 2 -> "2" [] n = 3 -> "3" [] n = 4 -> "4"
      [] OTHER -> "5"

\* formatTime: the locale rendering of a date string, one line of text.
formatTime(dateString) == << "<" \o dateString \o " in locale format>" >>

\* Variant of FormatEntry: the speaker prefix is written for every entry.
FormatEntry_AlwaysSpeaker(entry) ==
    CatAll(<< << "[" >>, TextOr(Get(entry, "startTime"), "00:00"), << " - " >>,
              TextOr(Get(entry, "endTime"), "00:00"), << "] " >>,
              Cat(TextOr(Get(entry, "speaker"), ""), << ": " >>),
              TextOr(Get(entry, "text"), "No content") >>)

\* The template string of one entry.
FormatEntry(entry) ==
    CatAll(<< << "[" >>, TextOr(Get(entry, "startTime"), "00:00"), << " - " >>,
              TextOr(Get(entry, "endTime"), "00:00"), << "] " >>,
              IF Truthy(Get(entry, "speaker"))
              THEN Cat(Lines(Get(entry, "speaker").s), << ": " >>)
              ELSE << "" >>,
              TextOr(Get(entry, "text"), "No content") >>)

\* const header = `Meeting: ...\nDate: ...\nTranscript ID: ...\n\n`
FormatHeader(t, transcript, index) ==
    LET info == Get(t, "meetingInfo")
    IN  CatAll(<< << "Meeting: " >>,
                  TextOr(Get(info, "subject"), "Untitled Meeting"), LineBreak,
                  << "Date: " >>,
                  IF Truthy(Get(info, "startDateTime"))
                  THEN formatTime(Get(info, "startDateTime").s)
                  ELSE << "Unknown" >>,
                  LineBreak,
                  << "Transcript ID: " >>,
                  TextOr(Get(transcript, "id"), "transcript-" \o IndexText(index)),
                  LineBreak, LineBreak >>)

\* transcript?.entries?.map(...).join('\n') || 'No transcript entries available'
FormatEntries(transcript) ==
    LET entries == Get(transcript, "entries")
        joined == Join([m \in 1..Len(entries.items) |->
                            FormatEntry(entries.items[m])], LineBreak)
    IN  IF Nullish(entries) \/ joined = << "" >>
        THEN << "No transcript entries available" >>
        ELSE joined

\* Variant of DownloadContent: the sections are joined by a line break only.
DownloadContent_NoDivider(t) ==
    LET transcripts == Get(t, "transcripts")
        joined == Join([n \in 1..Len(transcripts.items) |->
                            Cat(FormatHeader(t, transcripts.items[n], n),
                                FormatEntries(transcripts.items[n]))], LineBreak)
    IN  IF Nullish(transcripts) \/ joined = << "" >>
        THEN << "No transcript data available" >>
        ELSE joined

\* const content = transcriptData.transcripts?.map(...).join('\n\n---\n\n')
\*                   || 'No transcript data available'
DownloadContent(t) ==
    LET transcripts == Get(t, "transcripts")
        joined == Join([n \in 1..Len(transcripts.items) |->
                            Cat(FormatHeader(t, transcripts.items[n], n),
                                FormatEntries(transcripts.items[n]))], Divider)
    IN  IF Nullish(transcripts) \/ joined = << "" >>
        THEN << "No transcript data available" >>
        ELSE joined

\* a.download = `transcript-${transcriptData.meetingInfo?.id || 'meeting'}.txt`
DownloadName(t) ==
    CatAll(<< << "transcript-" >>,
              TextOr(Get(Get(t, "meetingInfo"), "id"), "meeting"),
              << ".txt" >> >>)

(***************************************************************************)
(* Transcripts on display when the export is requested.                    *)
(***************************************************************************)
SampleEntries ==
    << Entry1,
       Entry2,
       Obj([startTime |-> Str("00:07"), endTime |-> Str("00:09"),
            speaker |-> Str(""), text |-> Str("")]),
       Obj([startTime |-> Str("00:10"), endTime |-> Str("00:12"),
            speaker |-> Str("Bob"), text |-> Str(MultiLineText)]) >>

ExportEntries == { SampleEntries[k] : k \in 1..Len(SampleEntries) }

\* Entry lists of up to MaxEntries entries: the sample entries in cyclic
\* order, from each starting point.
ExportEntryLists ==
    { [k \in 1..m |-> SampleEntries[((r + k - 2) % Len(SampleEntries)) + 1]] :
        r \in 1..Len(SampleEntries), m \in 0..MaxEntries }

ExportSections ==
    { Obj([entries |-> Arr(l)]) : l \in ExportEntryLists }
        \cup { Obj([id |-> Str("s9")]) }

ExportSectionLists == UNION { [1..n -> ExportSections] : n \in 0..MaxSections }

ExportMeetingInfos ==
    { MeetingInfo,
      Obj([subject |-> Str(""), startDateTime |-> Str("2024-05-01T10:00:00Z")]) }

ExportInputs ==
    { Null }
        \cup { Obj([meetingInfo |-> info, transcripts |-> Arr(l)]) :
                  info \in ExportMeetingInfos, l \in ExportSectionLists }
        \cup { Obj([transcripts |-> Arr(l)]) : l \in ExportSectionLists }
        \cup { Obj([meetingInfo |-> info]) : info \in ExportMeetingInfos }

\* if (!transcriptData) return;
DownloadNothing ==
    /\ exportPc = "idle"
    /\ ~Truthy(exportData)
    /\ exportPc' = "returned"
    /\ UNCHANGED << exportData, exportFile, requests, orchVars, authVars,
                    logoutVars, pairVars, probeVars, appVars, pageVars >>

\* The rest of downloadTranscript: the content and the name of the file.
DownloadTranscript ==
    /\ exportPc = "idle"
    /\ Truthy(exportData)
    /\ exportFile' = [content |-> DownloadContent(exportData),
                      download |-> DownloadName(exportData)]
    /\ exportPc' = "downloaded"
    /\ UNCHANGED << exportData, requests, orchVars, authVars, logoutVars,
                    pairVars, probeVars, appVars, pageVars >>

InitExport ==
    /\ InitService
    /\ AppInitialState
    /\ PageInitialState
    /\ testModeParam = Null
    /\ exportData \in ExportInputs
    /\ exportPc = "idle"
    /\ exportFile = None

NextExport == DownloadNothing \/ DownloadTranscript

SpecExport == InitExport /\ [][NextExport]_vars

(***************************************************************************)
(* Reading an export back.                                                 *)
(***************************************************************************)
Downloaded == exportPc = "downloaded"

\* The sections of a transcript and the entries of a section.
SectionsOf(t) ==
    IF Get(t, "transcripts").kind = "array" THEN Get(t, "transcripts").items
    ELSE << >>

EntriesOf(transcript) ==
    IF Get(transcript, "entries").kind = "array"
    THEN Get(transcript, "entries").items
    ELSE << >>

\* content.split('\n\n---\n\n'): the divider is a line "---" between two
\* empty lines, with a line before and a line after it.
DividerAt(lines, j) ==
    /\ j >= 2
    /\ j + 3 <= Len(lines)
    /\ lines[j] = "" /\ lines[j + 1] = "---" /\ lines[j + 2] = ""

RECURSIVE SplitBlocks(_)
SplitBlocks(lines) ==
    IF \E j \in 1..Len(lines) : DividerAt(lines, j)
    THEN LET j == CHOOSE k \in 1..Len(lines) :
                    /\ DividerAt(lines, k)
                    /\ \A h \in 1..(k - 1) : ~DividerAt(lines, h)
         IN  << SubSeq(lines, 1, j - 1) >>
                 \o SplitBlocks(SubSeq(lines, j + 3, Len(lines)))
    ELSE << lines >>

\* The lines of the form '[start - end] ...' an entry can begin with.
EntryLineSet == { FormatEntry(e)[1] : e \in ExportEntries }

IsEntryLine(l) == l \in EntryLineSet

EntryLinesIn(block) == SelectSeq(block, IsEntryLine)

\* The entry lines a section is expected to give, in order.
ExpectedEntryLines(transcript) ==
    [m \in 1..Len(EntriesOf(transcript)) |->
        FormatEntry(EntriesOf(transcript)[m])[1]]

\* No text field of the transcript contains a line break.
SingleLine(t) ==
    \A n \in 1..Len(SectionsOf(t)) :
        \A m \in 1..Len(EntriesOf(SectionsOf(t)[n])) :
            Len(FormatEntry(EntriesOf(SectionsOf(t)[n])[m])) = 1

(***************************************************************************)
(* C15 as stated: for a transcript with N sections (N = 0 included),       *)
(* splitting the exported text on the divider gives exactly N blocks, and  *)
(* block n holds exactly the formatted entry lines of section n in their   *)
(* original order.                                                         *)
(***************************************************************************)
C15_Original ==
    Downloaded =>
        LET blocks == SplitBlocks(exportFile.content)
            sections == SectionsOf(exportData)
        IN  /\ Len(blocks) = Len(sections)
            /\ \A n \in 1..Len(sections) :
                  EntryLinesIn(blocks[n]) = ExpectedEntryLines(sections[n])

(***************************************************************************)
(* C15, amended.  For a transcript with N >= 1 sections whose text fields  *)
(* hold no line break, splitting the exported text on the divider gives    *)
(* exactly N blocks, and block n is the four header lines followed by the  *)
(* formatted entry lines of section n in their original order (by the      *)
(* line 'No transcript entries available' when the section has none).      *)
(* For a transcript without sections the export is the single line         *)
(* 'No transcript data available': one block, holding no entry line.       *)
(***************************************************************************)
C15_RoundTrip ==
    Downloaded =>
        LET blocks == SplitBlocks(exportFile.content)
            sections == SectionsOf(exportData)
        IN  /\ (Len(sections) >= 1 /\ SingleLine(exportData)) =>
                  /\ Len(blocks) = Len(sections)
                  /\ \A n \in 1..Len(sections) :
                        /\ EntryLinesIn(blocks[n]) = ExpectedEntryLines(sections[n])
                        /\ SubSeq(blocks[n], 1, 4) =
                              SubSeq(FormatHeader(exportData, sections[n], n), 1, 4)
                        /\ SubSeq(blocks[n], 5, Len(blocks[n])) =
                              IF EntriesOf(sections[n]) = << >>
                              THEN << "No transcript entries available" >>
                              ELSE ExpectedEntryLines(sections[n])
            /\ Len(sections) = 0 =>
                  /\ exportFile.content = << "No transcript data available" >>
                  /\ blocks = << exportFile.content >>
                  /\ EntryLinesIn(blocks[1]) = << >>

\* Two sections are exported, the first with two entries, the second with none.
C15_Witness ==
    /\ Downloaded
    /\ SingleLine(exportData)
    /\ Len(SectionsOf(exportData)) = 2
    /\ Len(EntriesOf(SectionsOf(exportData)[1])) = 2
    /\ EntriesOf(SectionsOf(exportData)[2]) = << >>
    /\ Len(SplitBlocks(exportFile.content)) = 2

(***************************************************************************)
(* The format of an exported entry, written out from the claim's words.    *)
(***************************************************************************)
\* A field is present when it holds a non-empty string.
Has(entry, f) == Get(entry, f).kind = "string" /\ Get(entry, f).s # ""

TimeText(entry, f) == IF Has(entry, f) THEN Get(entry, f).s ELSE "00:00"

\* '[<startTime> - <endTime>] <speaker: >'
ExpectedPrefix(entry) ==
    "[" \o TimeText(entry, "startTime") \o " - " \o TimeText(entry, "endTime")
        \o "] "
        \o (IF Has(entry, "speaker") THEN Get(entry, "speaker").s \o ": " ELSE "")

\* The text of the entry, as written and line by line.
ExpectedText(entry) ==
    IF Has(entry, "text") THEN Get(entry, "text").s ELSE "No content"

ExpectedTextLines(entry) ==
    IF Has(entry, "text") THEN Lines(Get(entry, "text").s) ELSE << "No content" >>

\* Every entry of the transcript on display.
AllExportedEntries ==
    UNION { { EntriesOf(SectionsOf(exportData)[n])[m] :
                m \in 1..Len(EntriesOf(SectionsOf(exportData)[n])) } :
            n \in 1..Len(SectionsOf(exportData)) }

\* 'transcript-<meetingId>.txt', 'meeting' standing in for a missing id
ExpectedName ==
    "transcript-"
        \o (IF Has(Get(exportData, "meetingInfo"), "id")
            THEN Get(Get(exportData, "meetingInfo"), "id").s
            ELSE "meeting")
        \o ".txt"

(***************************************************************************)
(* C16 as stated: in the exported text every entry is one line of the form *)
(* '[<startTime> - <endTime>] <speaker: ><text>', with '00:00' for a       *)
(* missing time, the speaker prefix exactly when the entry has a speaker   *)
(* and a default for a missing text; the file is named                     *)
(* 'transcript-<meetingId>.txt', with 'meeting' for a missing id.          *)
(***************************************************************************)
C16_Original ==
    Downloaded =>
        /\ \A entry \in AllExportedEntries :
              \E j \in 1..Len(exportFile.content) :
                  exportFile.content[j] =
                      ExpectedPrefix(entry) \o ExpectedText(entry)
        /\ exportFile.download = << ExpectedName >>

(***************************************************************************)
(* C16, amended.  Every entry is written, starting on a line of its own,   *)
(* as '[<startTime> - <endTime>] <speaker: ><text>', with '00:00' for a    *)
(* missing or empty time, the speaker prefix exactly when the speaker is   *)
(* non-empty and 'No content' for a missing or empty text; it is one line  *)
(* when its text holds no line break and otherwise as many lines as the    *)
(* text has.  The file is named 'transcript-<meetingId>.txt', with         *)
(* 'meeting' for a missing or empty id.                                    *)
(***************************************************************************)
C16_EntryFormat ==
    Downloaded =>
        /\ \A entry \in AllExportedEntries :
              LET lines == << ExpectedPrefix(entry) \o Head(ExpectedTextLines(entry)) >>
                               \o Tail(ExpectedTextLines(entry))
              IN  \E j \in 1..Len(exportFile.content) :
                      /\ j + Len(lines) - 1 <= Len(exportFile.content)
                      /\ SubSeq(exportFile.content, j, j + Len(lines) - 1) = lines
        /\ exportFile.download = << ExpectedName >>

\* An export with an entry lacking times and speaker, an entry whose speaker
\* and text are empty, and no meeting id.
C16_Witness ==
    /\ Downloaded
    /\ ~Has(Get(exportData, "meetingInfo"), "id")
    /\ Len(SectionsOf(exportData)) >= 1
    /\ EntriesOf(SectionsOf(exportData)[1]) = << SampleEntries[2], SampleEntries[3] >>
    /\ exportFile.download = << "transcript-meeting.txt" >>
    /\ \E j \in 1..Len(exportFile.content) :
          /\ j < Len(exportFile.content)
          /\ exportFile.content[j] = "[00:00 - 00:00] Bye"
          /\ exportFile.content[j + 1] = "[00:07 - 00:09] No content"

(***************************************************************************)
(* App.handleFetchMeetingSummary: the click handler of a meeting's Summary *)
(* button.  It calls fetchAndAnalyzeMeeting and awaits its result; the     *)
(* steps of the call are the actions of the service above.                 *)
(***************************************************************************)
predefinedMeetings ==
    { [id |-> 1,
       url |-> "https://teams.microsoft.com/meet/34349166966557?p=LxX7J4WLhDKz2oYJcA"],
      [id |-> 2,
       url |-> "https://teams.microsoft.com/meet/32829331378792?p=1OLQSl9P0J3jj8cXYd"] }

\* result.analyzeResponse.data.html.substring(0, 200) throws when html is
\* truthy and not a string.
HandlerLogThrows(r) ==
    LET html == Get(Get(Field(r, "analyzeResponse"), "data"), "html")
    IN  Truthy(Field(r, "analyzeResponse")) /\ Truthy(html) /\ html.kind # "string"

NoSubstring ==
    Err("TypeError", "result.analyzeResponse.data.html.substring is not a function")

\* The handler up to its await; the button is disabled while fetching.
HandleFetchMeetingSummary(meeting) ==
    /\ handlerPc = "idle"
    /\ ~fetching
    /\ fetching' = TRUE
    /\ fetchingMeetingId' = Num(meeting.id)
    /\ error' = Null
    /\ transcriptData' = Null
    /\ appAnalyzeResponse' = Null
    /\ handlerPc' = "awaiting"
    /\ StartCall(meeting.url)

\* Variant of HandleResult: the handler has no finally block.
HandleResult_NoFinally ==
    /\ handlerPc = "awaiting"
    /\ pc = "done"
    /\ IF outcome = "rejected"
       THEN /\ error' = Str(IF result.isError THEN result.message
                            ELSE "An error occurred during the process")
            /\ UNCHANGED << transcriptData, appAnalyzeResponse >>
       ELSE IF result.success
       THEN /\ transcriptData' = Field(result, "data")
            /\ appAnalyzeResponse' = OrElse(Field(result, "analyzeResponse"), Null)
            /\ error' = IF HandlerLogThrows(result) THEN Str(NoSubstring.message)
                        ELSE IF Truthy(Field(result, "error")) THEN result.error
                        ELSE error
       ELSE /\ error' = OrElse(Field(result, "error"), Str("Failed to process meeting"))
            /\ UNCHANGED << transcriptData, appAnalyzeResponse >>
    /\ UNCHANGED << fetching, fetchingMeetingId >>
    /\ handlerPc' = "done"
    /\ UNCHANGED << requests, orchVars, authVars, logoutVars, pairVars, probeVars,
                    exportVars, pageVars >>

\* The handler after its await: try body, catch and finally.
HandleResult ==
    /\ handlerPc = "awaiting"
    /\ pc = "done"
    /\ IF outcome = "rejected"
       THEN /\ error' = Str(IF result.isError THEN result.message
                            ELSE "An error occurred during the process")
            /\ UNCHANGED << transcriptData, appAnalyzeResponse >>
       ELSE IF result.success
       THEN /\ transcriptData' = Field(result, "data")
            /\ appAnalyzeResponse' = OrElse(Field(result, "analyzeResponse"), Null)
            /\ error' = IF HandlerLogThrows(result) THEN Str(NoSubstring.message)
                        ELSE IF Truthy(Field(result, "error")) THEN result.error
                        ELSE error
       ELSE /\ error' = OrElse(Field(result, "error"), Str("Failed to process meeting"))
            /\ UNCHANGED << transcriptData, appAnalyzeResponse >>
    /\ fetching' = FALSE
    /\ fetchingMeetingId' = Null
    /\ handlerPc' = "done"
    /\ UNCHANGED << requests, orchVars, authVars, logoutVars, pairVars, probeVars,
                    exportVars, pageVars >>

\* What an earlier run of the handler left in the App state.
PreviousRuns ==
    { [transcriptData |-> Null, error |-> Null],
      [transcriptData |-> Null, error |-> Str("Failed to fetch transcript")],
      [transcriptData |-> Obj([meetingInfo |-> MeetingInfo, transcripts |-> Arr(<< >>)]),
       error |-> Null] }

AppErrors == { Err("TypeError", "Failed to fetch") }
AppStatuses == {200, 500}

AppFetchBodies ==
    { Null, FetchBody(Bool(FALSE), Str("Meeting not found"), Undefined) }
        \cup { FetchBody(Bool(TRUE), Undefined, d) : d \in Transcripts \cup {Undefined} }

\* Analyze bodies, one of them with an html field that is no string.
AppAnalyzeBodies(k) ==
    AnalyzeBodies(k) \cup { Obj([data |-> Obj([html |-> Bool(TRUE)])]) }

InitApp ==
    /\ InitService
    /\ testModeParam = Null
    /\ InitNoExport
    /\ fetching = FALSE
    /\ fetchingMeetingId = Null
    /\ \E prev \in PreviousRuns :
          transcriptData = prev.transcriptData /\ error = prev.error
    /\ appAnalyzeResponse = Null
    /\ handlerPc = "idle"
    /\ authParam = Null
    /\ messageParam = Null
    /\ authStatus = Obj([authenticated |-> Bool(TRUE)])
    /\ loading = FALSE
    /\ loadPc = "loaded"
    /\ logoutHandlerPc = "idle"

NextApp ==
    \/ \E meeting \in predefinedMeetings : HandleFetchMeetingSummary(meeting)
    \/ \E e \in AppErrors : FetchRejects(e)
    \/ \E status \in AppStatuses : FetchResponds(status)
    \/ \E e \in ParseErrors : FetchJsonRejects(e)
    \/ \E body \in AppFetchBodies : FetchJsonResolves(body)
    \/ \E e \in AppErrors : AnalyzeRejects(e)
    \/ \E status \in AppStatuses : AnalyzeResponds(status)
    \/ pc = "analyzeJson" /\ \E body \in AppAnalyzeBodies(i) : AnalyzeJsonResolves(body)
    \/ \E e \in ParseErrors : AnalyzeJsonRejects(e)
    \/ HandleResult

SpecApp == InitApp /\ [][NextApp]_vars

(***************************************************************************)
(* What the App shows.                                                     *)
(***************************************************************************)
HandlerDone == handlerPc = "done"

\* {error && <Alert severity="error">...}
AlertRendered == Truthy(error)

\* {transcriptData && (<> ... </>)}
ResultRendered == Truthy(transcriptData)

PartialSuccess ==
    outcome = "fulfilled" /\ result.success /\ "error" \in DOMAIN result

(***************************************************************************)
(* C17 as stated: after handleFetchMeetingSummary has processed a result,  *)
(* a failure leaves the error state non-null and transcriptData null; a    *)
(* partial success (success true with an error) leaves transcriptData set  *)
(* to the fetched transcript, so that the result UI is rendered, and the   *)
(* error state set to the warning message.                                 *)
(***************************************************************************)
C17_Original ==
    HandlerDone =>
        /\ (outcome = "fulfilled" /\ ~result.success) =>
              error # Null /\ transcriptData = Null
        /\ PartialSuccess =>
              /\ transcriptData = FetchedTranscript
              /\ ResultRendered
              /\ error = result.error

(***************************************************************************)
(* C18.  The transcript is passed through unmodified: every analyze        *)
(* request of a call carries as its body the data field of the call's      *)
(* fetch response, the call keeps the response body as it was received,    *)
(* and a result with success true has that same data field as its data.    *)
(***************************************************************************)
C18_PassThrough ==
    /\ \A j \in 1..Len(requests) :
          IsAnalyzeRequest(requests[j]) =>
              FetchSucceeded /\ requests[j].body = FetchedTranscript
    /\ fetchCause.kind = "body" => data = fetchCause.body
    /\ (Done /\ outcome = "fulfilled" /\ result.success) =>
          /\ FetchSucceeded
          /\ "data" \in DOMAIN result
          /\ result.data = FetchedTranscript

\* A transcript with entries was posted to all three candidates and returned.
C18_Witness ==
    /\ Done
    /\ result.success
    /\ Len(AnalyzeRequests) = Len(baseUrls)
    /\ FetchedTranscript.kind = "object"
    /\ Len(SectionsOf(FetchedTranscript)) = 1
    /\ Len(EntriesOf(SectionsOf(FetchedTranscript)[1])) = 2
    /\ result.data = FetchedTranscript
    /\ \A j \in 1..Len(AnalyzeRequests) : AnalyzeRequests[j].body = result.data

(***************************************************************************)
(* C19 as stated: once the fetch response of a call had success true, the  *)
(* returned result always has success true and data equal to the fetched   *)
(* transcript, whatever happens afterwards in phase 2.                     *)
(***************************************************************************)
C19_Original ==
    (FetchSucceeded /\ Done) =>
        /\ outcome = "fulfilled"
        /\ result.success
        /\ Field(result, "data") = FetchedTranscript

(***************************************************************************)
(* C20 as stated: whenever the call returns success true with no error     *)
(* field, analyzeResponse is defined and is the parsed body of the         *)
(* candidate that answered with a 2xx status; the status that chose the    *)
(* success branch and the body returned come from the same candidate.      *)
(***************************************************************************)
C20_Original ==
    (Done /\ outcome = "fulfilled" /\ result.success /\ "error" \notin DOMAIN result) =>
        \E k \in 1..Len(baseUrls) :
            /\ answered[k].kind = "body"
            /\ Ok(answered[k].status)
            /\ Field(result, "analyzeResponse") = answered[k].body
            /\ analyzeResponse = Response(analyzeUrls[k], answered[k].status)

(***************************************************************************)
(* C21.  A call issues exactly one POST to /transcript/fetch, as its first *)
(* request; an analyze request is issued only after the fetch response was *)
(* read and found to have success true; and a call issues at most as many  *)
(* analyze requests as there are candidates.                               *)
(***************************************************************************)
IsFetchRequest(r) ==
    r.method = "POST" /\ r.url = API_BASE_URL \o "/transcript/fetch"

FetchRequests == SelectSeq(requests, IsFetchRequest)

C21_FetchThenAnalyze ==
    /\ Len(FetchRequests) = IF pc = "idle" THEN 0 ELSE 1
    /\ pc # "idle" => requests[1] = FetchRequest(meetingUrl)
    /\ \A j \in 2..Len(requests) : IsAnalyzeRequest(requests[j])
    /\ Len(AnalyzeRequests) >= 1 => FetchSucceeded
    /\ Len(AnalyzeRequests) <= Len(baseUrls)

\* A finished call that requested every candidate after its single fetch.
C21_Witness ==
    /\ Done
    /\ Len(FetchRequests) = 1
    /\ Len(AnalyzeRequests) = Len(baseUrls)
    /\ FetchSucceeded

(***************************************************************************)
(* The App from page load on: the mount effect, App.checkAuthStatus,       *)
(* handleLogout and handleFetchMeetingSummary, over the calls of the       *)
(* service.  The Logout and Summary buttons exist only in the              *)
(* authenticated UI.                                                       *)
(***************************************************************************)
\* Values of the page's auth parameter (Null: not present).
AuthParams == { Null, Str("success"), Str("error"), Str("pending") }

\* Values of the page's message parameter, as URLSearchParams.get returns
\* them (already percent-decoded once).
MessageParams ==
    { Null, Str(""), Str("access_denied"), Str("Access%20denied"), Str("100%") }

\* decodeURIComponent throws URIError on a '%' that starts no escape.
DecodeThrows(s) == s = "100%"

\* decodeURIComponent, for the strings the model uses.
decodeURIComponent(s) == IF s = "Access%20denied" THEN "Access denied" ELSE s

\* The mount effect.  An exception thrown by it is caught by nobody: the
\* effect ends there and no state is set.
PageLoad ==
    /\ loadPc = "initial"
    /\ IF authParam = Str("error")
       THEN LET message == OrElse(messageParam, Str("Authentication failed"))
            IN  /\ IF DecodeThrows(message.s)
                   THEN /\ loadPc' = "crashed"
                        /\ UNCHANGED << error, loading >>
                   ELSE /\ error' = Str(decodeURIComponent(message.s))
                        /\ loading' = FALSE
                        /\ loadPc' = "loaded"
                /\ UNCHANGED << requests, orchVars, authVars, logoutVars, pairVars,
                                probeVars, exportVars, fetching, fetchingMeetingId,
                                transcriptData, appAnalyzeResponse, handlerPc,
                                authParam, messageParam, authStatus,
                                logoutHandlerPc >>
       ELSE /\ AuthStartCall
            /\ loadPc' = "checking"
            /\ UNCHANGED << authParam, messageParam, authStatus, loading,
                            logoutHandlerPc >>

\* App.checkAuthStatus after its await: try, catch and finally.
CheckAuthStatusDone ==
    /\ loadPc = "checking"
    /\ authPc = "done"
    /\ authStatus' = IF authOutcome = "fulfilled" THEN authResult
                     ELSE Obj([authenticated |-> Bool(FALSE)])
    /\ loading' = FALSE
    /\ loadPc' = "loaded"
    /\ UNCHANGED << requests, orchVars, authVars, logoutVars, pairVars, probeVars,
                    exportVars, appVars, authParam, messageParam, logoutHandlerPc >>

\* The authenticated UI is on screen: {authStatus.authenticated ? ... : ...}
AuthenticatedUI ==
    loadPc = "loaded" /\ ~loading /\ Truthy(Get(authStatus, "authenticated"))

\* handleLogout up to its await.
HandleLogout ==
    /\ AuthenticatedUI
    /\ logoutHandlerPc = "idle"
    /\ LogoutStartCall
    /\ logoutHandlerPc' = "awaiting"
    /\ UNCHANGED << authParam, messageParam, authStatus, loading, loadPc >>

\* Variant of HandleLogoutDone: a failed logout is treated like a successful one.
HandleLogoutDone_AlwaysClears ==
    /\ logoutHandlerPc = "awaiting"
    /\ logoutPc = "done"
    /\ authStatus' = Obj([authenticated |-> Bool(FALSE)])
    /\ transcriptData' = Null
    /\ appAnalyzeResponse' = Null
    /\ logoutHandlerPc' = "done"
    /\ UNCHANGED << requests, orchVars, authVars, logoutVars, pairVars, probeVars,
                    exportVars, fetching, fetchingMeetingId, error, handlerPc,
                    authParam, messageParam, loading, loadPc >>

\* handleLogout after its await: the rest of the try, or the catch.
HandleLogoutDone ==
    /\ logoutHandlerPc = "awaiting"
    /\ logoutPc = "done"
    /\ IF logoutOutcome = "fulfilled"
       THEN /\ authStatus' = Obj([authenticated |-> Bool(FALSE)])
            /\ transcriptData' = Null
            /\ appAnalyzeResponse' = Null
       ELSE UNCHANGED << authStatus, transcriptData, appAnalyzeResponse >>
    /\ logoutHandlerPc' = "done"
    /\ UNCHANGED << requests, orchVars, authVars, logoutVars, pairVars, probeVars,
                    exportVars, fetching, fetchingMeetingId, error, handlerPc,
                    authParam, messageParam, loading, loadPc >>

SessionErrors == { Err("TypeError", "Failed to fetch") }
SessionStatuses == {200, 500}

SessionFetchBodies ==
    { FetchBody(Bool(FALSE), Str("Meeting not found"), Undefined),
      FetchBody(Bool(TRUE), Undefined, Undefined),
      FetchBody(Bool(TRUE), Undefined,
                Obj([meetingInfo |-> MeetingInfo, transcripts |-> Arr(<< >>)])) }

InitSession ==
    /\ InitService
    /\ testModeParam = Null
    /\ InitNoExport
    /\ AppInitialState
    /\ authParam \in { Null, Str("error") }
    /\ messageParam = Null
    /\ authStatus = Obj([authenticated |-> Bool(FALSE)])
    /\ loading = TRUE
    /\ loadPc = "initial"
    /\ logoutHandlerPc = "idle"

NextSession ==
    \/ PageLoad
    \/ \E e \in SessionErrors : AuthFetchRejects(e)
    \/ \E status \in SessionStatuses : AuthFetchResponds(status)
    \/ \E e \in ParseErrors : AuthJsonRejects(e)
    \/ \E body \in AuthBodies : AuthJsonResolves(body)
    \/ CheckAuthStatusDone
    \/ HandleLogout
    \/ \E e \in SessionErrors : LogoutFetchRejects(e)
    \/ \E status \in SessionStatuses : LogoutFetchResponds(status)
    \/ HandleLogoutDone
    \/ AuthenticatedUI /\ \E meeting \in predefinedMeetings :
                              HandleFetchMeetingSummary(meeting)
    \/ \E e \in SessionErrors : FetchRejects(e)
    \/ \E status \in SessionStatuses : FetchResponds(status)
    \/ \E e \in ParseErrors : FetchJsonRejects(e)
    \/ \E body \in SessionFetchBodies : FetchJsonResolves(body)
    \/ \E e \in SessionErrors : AnalyzeRejects(e)
    \/ \E status \in SessionStatuses : AnalyzeResponds(status)
    \/ pc = "analyzeJson" /\ \E body \in AnalyzeBodies(i) : AnalyzeJsonResolves(body)
    \/ \E e \in ParseErrors : AnalyzeJsonRejects(e)
    \/ HandleResult

SpecSession == InitSession /\ [][NextSession]_vars

(***************************************************************************)
(* The page load alone: the mount effect and the auth-status check, for    *)
(* every value of the auth and message parameters.                         *)
(***************************************************************************)
InitLoad ==
    /\ InitService
    /\ testModeParam = Null
    /\ InitNoExport
    /\ AppInitialState
    /\ authParam \in AuthParams
    /\ messageParam \in MessageParams
    /\ authStatus = Obj([authenticated |-> Bool(FALSE)])
    /\ loading = TRUE
    /\ loadPc = "initial"
    /\ logoutHandlerPc = "idle"

NextLoad ==
    \/ PageLoad
    \/ \E e \in TransportErrors : AuthFetchRejects(e)
    \/ \E status \in Statuses : AuthFetchResponds(status)
    \/ \E e \in ParseErrors : AuthJsonRejects(e)
    \/ \E body \in AuthBodies : AuthJsonResolves(body)
    \/ CheckAuthStatusDone

SpecLoad == InitLoad /\ [][NextLoad]_vars

\* The browser settles every request and React runs every continuation.
FairLoad == InitLoad /\ [][NextLoad]_vars /\ WF_vars(NextLoad)

(***************************************************************************)
(* C22.  The step of handleLogout that follows the settling of             *)
(* MeetingService.logout: when logout resolved, authStatus becomes         *)
(* {authenticated:false} and transcriptData and analyzeResponse become     *)
(* null; when logout rejected, the three are left as they were and the     *)
(* user is still shown as authenticated.                                   *)
(***************************************************************************)
LoggedOut == Obj([authenticated |-> Bool(FALSE)])

C22_HandleLogout ==
    [][ (logoutHandlerPc = "awaiting" /\ logoutHandlerPc' = "done") =>
            IF logoutOutcome = "fulfilled"
            THEN /\ authStatus' = LoggedOut
                 /\ transcriptData' = Null
                 /\ appAnalyzeResponse' = Null
            ELSE /\ logoutOutcome = "rejected"
                 /\ UNCHANGED << authStatus, transcriptData, appAnalyzeResponse >>
                 /\ Truthy(Get(authStatus', "authenticated")) ]_vars

\* A logout that failed while a transcript was on display: the transcript
\* and the authenticated status are still there.
C22_Witness ==
    /\ logoutHandlerPc = "done"
    /\ logoutOutcome = "rejected"
    /\ Truthy(Get(authStatus, "authenticated"))
    /\ Truthy(transcriptData)
    /\ handlerPc = "done"

(***************************************************************************)
(* Every request the service makes: the four methods of MeetingService,    *)
(* called one after the other.                                             *)
(***************************************************************************)
NextRequests ==
    \/ AuthStart
    \/ \E e \in SessionErrors : AuthFetchRejects(e)
    \/ authPc = "done" /\ LogoutStart
    \/ \E e \in SessionErrors : LogoutFetchRejects(e)
    \/ logoutPc = "done" /\ \E url \in MeetingUrls : Start(url)
    \/ \E status \in SessionStatuses : FetchResponds(status)
    \/ \E body \in SessionFetchBodies : FetchJsonResolves(body)
    \/ \E e \in SessionErrors : AnalyzeRejects(e)
    \/ pc = "done" /\ ProbeStart
    \/ \E e \in SessionErrors : ProbeRejects(e)
    \/ \E status \in SessionStatuses : ProbeResponds(status)

InitRequests == Init /\ testModeParam = Null

SpecRequests == InitRequests /\ [][NextRequests]_vars

\* The origins the page is served from: the development server and a static
\* host.  None of them is the backend or an analyze candidate.
PageOrigins == { "http://localhost:5173", "https://mom-bot.example.app" }

\* The origin of a request URL of the service.
OriginOf(url) ==
    IF \E k \in 1..Len(baseUrls) :
            url = baseUrls[k] \/ url \in { baseUrls[k] \o "?test_mode=" \o t
                                              \o "&llm_timeout=60&user_lookup_timeout=30" :
                                           t \in {"true", "false"} }
    THEN LET k == CHOOSE k \in 1..Len(baseUrls) :
                    url = baseUrls[k] \/ url \in { baseUrls[k] \o "?test_mode=" \o t
                                              \o "&llm_timeout=60&user_lookup_timeout=30" :
                                           t \in {"true", "false"} }
         IN  << "http://localhost:8000", "http://127.0.0.1:8000",
                "http://0.0.0.0:8000" >>[k]
    ELSE API_BASE_URL

\* The fetch standard: cookies go with a request under credentials 'include',
\* and under the default 'same-origin' when the target is the page's origin.
SendsCredentials(r, pageOrigin) ==
    \/ r.credentials = "include"
    \/ r.credentials = "same-origin" /\ OriginOf(r.url) = pageOrigin

CallInFlight == pc \notin {"idle", "done"}

C25_Original ==
    ~Truthy(Get(authStatus, "authenticated")) =>
        Nullish(transcriptData) /\ Nullish(appAnalyzeResponse)

(***************************************************************************)
(* C26 as stated: every completed handleFetchMeetingSummary gives the user *)
(* feedback: when the handler has finished, the error state or             *)
(* transcriptData holds a value (neither null nor undefined), for every    *)
(* result fetchAndAnalyzeMeeting can return.                               *)
(***************************************************************************)
C26_Original ==
    HandlerDone => (~Nullish(error) \/ ~Nullish(transcriptData))

(***************************************************************************)
(* C27 as stated: on every page load, whatever the auth and message        *)
(* parameters and whatever the outcome of the auth-status request, the     *)
(* loading state eventually becomes false.                                 *)
(***************************************************************************)
C27_Original == <>(~loading)

(***************************************************************************)
(* C28 as stated: loaded with auth=error, the App issues no auth-status    *)
(* request, authStatus stays {authenticated:false} and the error state is  *)
(* the message parameter, or 'Authentication failed' when there is none;   *)
(* for any other value of auth exactly one auth-status check is started    *)
(* and authStatus is set from its result.                                  *)
(***************************************************************************)
IsAuthRequest(r) == r = AuthRequest

C28_Original ==
    loadPc # "initial" =>
        IF authParam = Str("error")
        THEN /\ Len(SelectSeq(requests, IsAuthRequest)) = 0
             /\ authStatus = LoggedOut
             /\ error = OrElse(messageParam, Str("Authentication failed"))
        ELSE /\ Len(SelectSeq(requests, IsAuthRequest)) = 1
             /\ loadPc = "loaded" => authStatus = authResult

(***************************************************************************)
(* C29.  When every analyze candidate failed at the transport level, the   *)
(* error text of the result names the message of the failure of the last   *)
(* candidate attempted, not of an earlier one, and 'Unknown network error' *)
(* when that failure has no message.                                       *)
(***************************************************************************)
LastFailureText ==
    IF answered[Len(baseUrls)].error.message # ""
    THEN answered[Len(baseUrls)].error.message
    ELSE "Unknown network error"

C29_LastErrorReported ==
    (AllTransportFailed /\ Done) =>
        Field(result, "error") =
            Str("Analysis failed - could not connect to any analyze API endpoints. Last error: "
                \o LastFailureText
                \o ". Transcript was fetched successfully.")

\* Three failures with the last message different from the first two.
C29_Witness ==
    /\ AllTransportFailed /\ Done
    /\ answered[1].error.message = "Failed to fetch"
    /\ answered[2].error.message = ""
    /\ answered[3].error.message = "Load failed"
    /\ result.error.s =
          "Analysis failed - could not connect to any analyze API endpoints. Last error: Load failed. Transcript was fetched successfully."

====
